---- MODULE Spec2Model ----
(***************************************************************************)
(* Harris County finance transparency tool (src/app.py).                   *)
(*                                                                         *)
(* Conventions of the model                                                *)
(*  - A text is a sequence of one-character strings, so that str.upper()   *)
(*    and str.split() act on characters as they do in Python.              *)
(*  - A text the program only passes around (a label, a category) is a     *)
(*    one-element sequence holding the whole string.                       *)
(*  - A float64 cell is [nan, val]: NaN, or an integer amount.  Amounts    *)
(*    are whole currency units; products with 0.4 .. 0.1 are kept exactly, *)
(*    in tenths of a unit.                                                 *)
(***************************************************************************)
EXTENDS Integers, Sequences, FiniteSets, TLC

VARIABLES
    pc,                 \* position of main() / of the function being run
    ret,                \* where create_money_flow_network returns to
    error,              \* the exception that ended the run, or NoError
    csv_finance,        \* rows of harris_county_finance_2016_2025.csv (texts)
    finance,            \* the finance DataFrame after load_data
    lobbyists,          \* the lobbyists DataFrame
    vendors,            \* the vendors DataFrame
    latest_period,      \* main: latest_period
    latest_current,     \* main: latest_current
    deficit_spenders,   \* main: the "- **name**: $deficit deficit" lines
    G,                  \* create_money_flow_network: the graph
    net_i,              \* create_money_flow_network: loop index
    sankey,             \* create_sankey_diagram: labels, sources, targets, values
    potential_overlaps, \* main: potential_overlaps
    ratio_flags,        \* main: the red-flag boxes of "Spending Anomalies"
    loans_data,         \* main: loans_data
    concentration       \* main: the vendor concentration warning

vars == <<pc, ret, error, csv_finance, finance, lobbyists, vendors,
          latest_period, latest_current, deficit_spenders, G, net_i, sankey,
          potential_overlaps, ratio_flags, loans_data, concentration>>

-----------------------------------------------------------------------------
(* Bounds of the model *)

MaxRows == 2

MaxLobbyists == 2

MaxVendors == 2

-----------------------------------------------------------------------------
(* Sequences and sets *)

ToSet(s) == {s[i] : i \in 1..Len(s)}

SeqsUpTo(S, n) == UNION {[1..k -> S] : k \in 0..n}

\* The orderings of a finite set: what iterating a Python set may yield.
Orderings(S) ==
    {s \in [1..Cardinality(S) -> S] : \A x \in S : \E i \in 1..Cardinality(S) : s[i] = x}

Permutations_(s) ==
    {[i \in 1..Len(s) |-> s[p[i]]] : p \in Orderings(1..Len(s))}

RECURSIVE SumSeq(_)
SumSeq(s) == IF s = <<>> THEN 0 ELSE s[1] + SumSeq(Tail(s))

-----------------------------------------------------------------------------
(* Texts *)

T(s) == <<s>>

NA == <<"NaN">>          \* a missing text cell (pandas NaN in an object column)

LowerLetters ==
    <<"a","b","c","d","e","f","g","h","i","j","k","l","m",
      "n","o","p","q","r","s","t","u","v","w","x","y","z">>

UpperLetters ==
    <<"A","B","C","D","E","F","G","H","I","J","K","L","M",
      "N","O","P","Q","R","S","T","U","V","W","X","Y","Z">>

UpperMap ==
    [c \in ToSet(LowerLetters) |->
        UpperLetters[CHOOSE i \in 1..Len(LowerLetters) : LowerLetters[i] = c]]

UpperChar(c) == IF c \in DOMAIN UpperMap THEN UpperMap[c] ELSE c

\* str.upper()
StrUpper(s) == [i \in 1..Len(s) |-> UpperChar(s[i])]

IsSpace(c) == c \in {" ", "\t"}

RECURSIVE SplitFrom(_, _, _)
SplitFrom(s, i, cur) ==
    IF i > Len(s) THEN (IF cur = <<>> THEN <<>> ELSE <<cur>>)
    ELSE IF IsSpace(s[i])
         THEN (IF cur = <<>> THEN SplitFrom(s, i + 1, <<>>)
                             ELSE <<cur>> \o SplitFrom(s, i + 1, <<>>))
         ELSE SplitFrom(s, i + 1, Append(cur, s[i]))

\* str.split(): the maximal runs of non-whitespace characters
StrSplit(s) == SplitFrom(s, 1, <<>>)

-----------------------------------------------------------------------------
(* Numbers *)

NaN == [nan |-> TRUE, val |-> 0]

Num(v) == [nan |-> FALSE, val |-> v]

notna(x) == ~x.nan

\* pandas/IEEE comparison: any comparison with NaN is False
Gt(a, b) == notna(a) /\ notna(b) /\ a.val > b.val

\* x if pd.notna(x) else 0
OrZero(x) == IF notna(x) THEN x.val ELSE 0

DigitChars == <<"0","1","2","3","4","5","6","7","8","9">>

IsDigit(c) == \E i \in 1..Len(DigitChars) : DigitChars[i] = c

DigitValue(c) == (CHOOSE i \in 1..Len(DigitChars) : DigitChars[i] = c) - 1

IsDigits(s) == s # <<>> /\ \A i \in 1..Len(s) : IsDigit(s[i])

RECURSIVE DigitsValue(_)
DigitsValue(s) ==
    IF s = <<>> THEN 0
    ELSE DigitsValue(SubSeq(s, 1, Len(s) - 1)) * 10 + DigitValue(s[Len(s)])

\* pd.to_numeric(..., errors='coerce') on one cell, for integer texts:
\* a signed run of digits is its value, anything else is NaN
to_numeric(s) ==
    IF IsDigits(s) THEN Num(DigitsValue(s))
    ELSE IF s # <<>> /\ s[1] = "-" /\ IsDigits(Tail(s)) THEN Num(0 - DigitsValue(Tail(s)))
    ELSE NaN

\* Series.sum(): NaN cells are skipped, the empty sum is 0
SeriesSum(col) == SumSeq([i \in 1..Len(col) |-> IF notna(col[i]) THEN col[i].val ELSE 0])

-----------------------------------------------------------------------------
(* Configuration *)

LinaHidalgo == <<"L","i","n","a"," ","H","i","d","a","l","g","o">>

RodneyEllis == <<"R","o","d","n","e","y"," ","E","l","l","i","s">>

AdrianGarcia == <<"A","d","r","i","a","n"," ","G","a","r","c","i","a">>

TomRamsey == <<"T","o","m"," ","R","a","m","s","e","y">>

LesleyBriones == <<"L","e","s","l","e","y"," ","B","r","i","o","n","e","s">>

ALL_OFFICIALS == <<LinaHidalgo, RodneyEllis, AdrianGarcia, TomRamsey, LesleyBriones>>

OFFICIAL_INFO(name) ==
    IF name = TomRamsey THEN T("Republican")
    ELSE IF name \in ToSet(ALL_OFFICIALS) THEN T("Democrat")
    ELSE T("")

isin_Anyone(name) == TRUE

\* Series.isin(ALL_OFFICIALS)
isin_ALL_OFFICIALS(name) == name \in ToSet(ALL_OFFICIALS)

-----------------------------------------------------------------------------
(* load_data *)

NoError == "none"

NormalizeRow(r) ==
    [Name |-> r.Name, ReportPeriod |-> r.ReportPeriod,
     Raised |-> to_numeric(r.Raised), Spent |-> to_numeric(r.Spent),
     Loans |-> to_numeric(r.Loans), CashOnHand |-> to_numeric(r.CashOnHand)]

load_data(csv) == [i \in 1..Len(csv) |-> NormalizeRow(csv[i])]

Column(df, col) == [i \in 1..Len(df) |-> df[i][col]]

-----------------------------------------------------------------------------
(* main: latest-period selection (lines 252-255) *)

\* finance['ReportPeriod'].iloc[0]; raises IndexError on an empty frame
LatestPeriod(fin) == fin[1].ReportPeriod

LatestData(fin) == SelectSeq(fin, LAMBDA r : r.ReportPeriod = LatestPeriod(fin))

LatestCurrent_FirstPerName(fin) ==
    LET rows == SelectSeq(LatestData(fin), LAMBDA r : isin_ALL_OFFICIALS(r.Name))
        keep == SelectSeq([i \in 1..Len(rows) |-> i],
                          LAMBDA i : \A j \in 1..(i - 1) : rows[j].Name # rows[i].Name)
    IN  [k \in 1..Len(keep) |-> rows[keep[k]]]

LatestCurrent(fin) == SelectSeq(LatestData(fin), LAMBDA r : isin_ALL_OFFICIALS(r.Name))

-----------------------------------------------------------------------------
(* main: deficit spenders (lines 336-346) *)

IsDeficitRow_NanAsZero(r) == OrZero(r.Spent) > OrZero(r.Raised)

IsDeficitRow(r) == Gt(r.Spent, r.Raised)

DeficitLine(r) == [Name |-> r.Name, deficit |-> r.Spent.val - r.Raised.val]

DeficitSpenders(lc) ==
    LET rows == SelectSeq(lc, IsDeficitRow)
    IN  [i \in 1..Len(rows) |-> DeficitLine(rows[i])]

-----------------------------------------------------------------------------
(* create_sankey_diagram (lines 171-229) *)

CategoryLabels ==
    <<T("Campaign Operations"), T("Political Consulting"),
      T("Media/Advertising"), T("Events/Outreach")>>

Proportions_Rounded == <<4, 3, 2, 2>>

\* The factors 0.4, 0.3, 0.2, 0.1 of lines 198-210, in tenths.
Proportions == <<4, 3, 2, 1>>

\* one value of the flow list, in tenths of a currency unit
Whole(x) == x * 10

SankeyLatest(fin) ==
    SelectSeq(fin, LAMBDA r : r.ReportPeriod = LatestPeriod(fin)
                              /\ isin_ALL_OFFICIALS(r.Name))

\* lines 186-189: one (source, target, value) per row of latest
Stage1(latest) ==
    [i \in 1..Len(latest) |->
        [source |-> 0, target |-> i, value |-> Whole(OrZero(latest[i].Raised))]]

Stage2Row_FromZero(latest, i) ==
    LET spent == OrZero(latest[i].Spent)
    IN  IF spent >= 0
        THEN [k \in 1..4 |->
                [source |-> i, target |-> Len(latest) + k,
                 value |-> spent * Proportions[k]]]
        ELSE <<>>

\* lines 193-210: the four edges of row i (1-based; its node index is i)
Stage2Row(latest, i) ==
    LET spent == OrZero(latest[i].Spent)
    IN  IF spent > 0
        THEN [k \in 1..4 |->
                [source |-> i, target |-> Len(latest) + k,
                 value |-> spent * Proportions[k]]]
        ELSE <<>>

RECURSIVE Stage2From(_, _)
Stage2From(latest, i) ==
    IF i > Len(latest) THEN <<>>
    ELSE Stage2Row(latest, i) \o Stage2From(latest, i + 1)

create_sankey_diagram(fin) ==
    LET latest == SankeyLatest(fin)
        links == Stage1(latest) \o Stage2From(latest, 1)
    IN  [labels  |-> <<T("Donors/Fundraising")>> \o Column(latest, "Name") \o CategoryLabels,
         sources |-> [j \in 1..Len(links) |-> links[j].source],
         targets |-> [j \in 1..Len(links) |-> links[j].target],
         values  |-> [j \in 1..Len(links) |-> links[j].value]]

-----------------------------------------------------------------------------
(* main: lobbyist-vendor overlap (lines 442-456) *)

\* set(df[col].str.upper().dropna())
UpperNames(df, col) == {StrUpper(df[i][col]) : i \in {j \in 1..Len(df) : df[j][col] # NA}}

\* names the model feeds to the detector
AbCo == <<"a","b"," ","c","o">>

AbCoMixed == <<"A","b"," ","C","o">>

AbCoLtd == <<"a","b"," "," ","c","o"," ","L","t","d">>

CoCo == <<"c","o","\t","c","o">>

\* client and vendor names: a name, its case variant, a longer name sharing
\* two words with it, a name of one repeated word
NamePool == {AbCo, AbCoMixed, AbCoLtd, CoCo}

\* set(name.split()) for the names of the pool, computed once
SplitPool == [n \in {StrUpper(m) : m \in NamePool} |-> ToSet(StrSplit(n))]

\* set(name.split())
WordSet(name) == IF name \in DOMAIN SplitPool THEN SplitPool[name] ELSE ToSet(StrSplit(name))

CommonWords(client, vendor) == WordSet(client) \cap WordSet(vendor)

IsOverlap_Above2(client, vendor) == Cardinality(CommonWords(client, vendor)) > 2

IsOverlap_ClientWithin(client, vendor) ==
    /\ Cardinality(CommonWords(client, vendor)) >= 2
    /\ WordSet(client) \subseteq WordSet(vendor)

IsOverlap(client, vendor) == Cardinality(CommonWords(client, vendor)) >= 2

RECURSIVE JoinComma(_)
JoinComma(words) ==
    IF words = <<>> THEN <<>>
    ELSE IF Len(words) = 1 THEN words[1]
    ELSE words[1] \o <<",", " ">> \o JoinComma(Tail(words))

\* the words of a set in the order `rank` lists them
InOrder(S, rank) == SelectSeq(rank, LAMBDA w : w \in S)

OverlapRecord(client, vendor, rank) ==
    [LobbyistClient |-> client, VendorName |-> vendor,
     CommonWordsText |-> JoinComma(InOrder(CommonWords(client, vendor), rank))]

RECURSIVE InnerLoop(_, _, _)
InnerLoop(client, vs, rank) ==
    IF vs = <<>> THEN <<>>
    ELSE (IF IsOverlap(client, vs[1])
          THEN <<OverlapRecord(client, vs[1], rank)>> ELSE <<>>)
         \o InnerLoop(client, Tail(vs), rank)

RECURSIVE OuterLoop(_, _, _)
OuterLoop(cs, vs, rank) ==
    IF cs = <<>> THEN <<>>
    ELSE InnerLoop(cs[1], vs, rank) \o OuterLoop(Tail(cs), vs, rank)

AllWords(names) == UNION {WordSet(n) : n \in names}

\* Every list the loops can build: a Python set iterates in an unspecified
\* order, so the clients, the vendors and the words each come in some order.
\* One word order serves all records of a run.
PotentialOverlaps(lob, col_l, ven, col_v) ==
    LET lobby_clients == UpperNames(lob, col_l)
        vendor_names  == UpperNames(ven, col_v)
    IN  {OuterLoop(cs, vs, rank) :
            cs \in Orderings(lobby_clients), vs \in Orderings(vendor_names),
            rank \in Orderings(AllWords(lobby_clients) \cap AllWords(vendor_names))}

-----------------------------------------------------------------------------
(* main: spending anomalies (lines 471-484) *)

OfficialData(fin, official) == SelectSeq(fin, LAMBDA r : r.Name = official)

TotalRaised(fin, official) == SeriesSum(Column(OfficialData(fin, official), "Raised"))

TotalSpent(fin, official) == SeriesSum(Column(OfficialData(fin, official), "Spent"))

RatioExceeds_AtLeast(total_spent, total_raised) == total_spent * 10 >= total_raised * 12

\* total_spent / total_raised > 1.2, for total_raised > 0
RatioExceeds(total_spent, total_raised) == total_spent * 10 > total_raised * 12

IsRatioFlagged(fin, official) ==
    /\ TotalRaised(fin, official) > 0
    /\ RatioExceeds(TotalSpent(fin, official), TotalRaised(fin, official))

RatioFlag(fin, official) ==
    [official |-> official,
     ratio |-> <<TotalSpent(fin, official), TotalRaised(fin, official)>>,
     total_raised |-> TotalRaised(fin, official),
     total_spent |-> TotalSpent(fin, official)]

SpendingAnomalies(fin) ==
    LET flagged == SelectSeq(ALL_OFFICIALS, LAMBDA o : IsRatioFlagged(fin, o))
    IN  [i \in 1..Len(flagged) |-> RatioFlag(fin, flagged[i])]

-----------------------------------------------------------------------------
(* main: self-funded campaigns (lines 492-497) *)

HasLoans_OrZero(r) == notna(r.Loans) /\ r.Loans.val >= 0

\* latest_current['Loans'] > 0 (line 492)
HasLoans(r) == Gt(r.Loans, Num(0))

IsSortedDesc(rows) ==
    \A i \in 1..Len(rows) - 1 : rows[i].Loans.val >= rows[i + 1].Loans.val

\* sort_values('Loans', ascending=False): the default sort is not stable, so
\* rows with equal loans come out in either order
LoansData(lc) == {rows \in Permutations_(SelectSeq(lc, HasLoans)) : IsSortedDesc(rows)}

-----------------------------------------------------------------------------
(* main: vendor concentration (lines 505-514) *)

\* value_counts(): the count of each category present, NaN dropped
Categories(ven) == {ven[i].Category : i \in {j \in 1..Len(ven) : ven[j].Category # NA}}

CountOf(ven, cat) == Cardinality({i \in 1..Len(ven) : ven[i].Category = cat})

CountsSum(ven) == Cardinality({i \in 1..Len(ven) : ven[i].Category # NA})

\* the index value_counts() may put first: a category of largest count
TopCategories(ven) ==
    {c \in Categories(ven) : \A d \in Categories(ven) : CountOf(ven, c) >= CountOf(ven, d)}

\* vendor_cats.iloc[0] / vendor_cats.sum() > 0.5
IsConcentrated(ven, top) == CountOf(ven, top) * 2 > CountsSum(ven)

NoWarning == [flagged |-> FALSE, category |-> NA, share |-> <<0, 1>>]

ConcentrationWarning(ven, top) ==
    IF IsConcentrated(ven, top)
    THEN [flagged |-> TRUE, category |-> top, share |-> <<CountOf(ven, top), CountsSum(ven)>>]
    ELSE NoWarning

-----------------------------------------------------------------------------
(* create_money_flow_network (lines 95-143) *)

\* nx.Graph(): node -> attributes, and {u, v} -> attributes ({u} is a self-loop)
EmptyGraph == [node |-> <<>>, edge |-> <<>>]

NoAttrs == [node_type |-> "", title |-> <<>>, color |-> "", size |-> NaN]

\* the size hints are kept in units of 1/200000 (line 111 divides cash by 200000)
SizeUnit == 200000

add_node(g, n, attrs) ==
    [g EXCEPT !.node = [x \in DOMAIN g.node \cup {n} |-> IF x = n THEN attrs ELSE g.node[x]]]

add_edge(g, u, v, attrs) ==
    LET withU == IF u \in DOMAIN g.node THEN g ELSE add_node(g, u, NoAttrs)
        withV == IF v \in DOMAIN withU.node THEN withU ELSE add_node(withU, v, NoAttrs)
    IN  [withV EXCEPT !.edge =
            [e \in DOMAIN withV.edge \cup {{u, v}} |->
                IF e = {u, v} THEN attrs ELSE withV.edge[e]]]

OfficialAttrs(official, cash) ==
    [node_type |-> "official",
     title |-> <<official, OFFICIAL_INFO(official), cash>>,
     color |-> "#e74c3c",
     size |-> IF notna(cash) THEN Num(40 * SizeUnit + cash.val) ELSE NaN]

\* lines 104-111, one official
AddOfficial(g, fin, official) ==
    LET latest == LatestData(fin)
        official_data == SelectSeq(latest, LAMBDA r : r.Name = official)
    IN  IF official_data # <<>>
        THEN add_node(g, official, OfficialAttrs(official, official_data[1].CashOnHand))
        ELSE g

\* lines 123-126 and 138-141: for official in ALL_OFFICIALS, from the k-th on
RECURSIVE ConnectFrom(_, _, _, _)
ConnectFrom(g, name, attrs, k) ==
    IF k > Len(ALL_OFFICIALS) THEN g
    ELSE ConnectFrom(IF ALL_OFFICIALS[k] \in DOMAIN g.node
                     THEN add_edge(g, name, ALL_OFFICIALS[k], attrs) ELSE g,
                     name, attrs, k + 1)

LobbyistAttrs(lobby) ==
    [node_type |-> "lobbyist",
     title |-> <<lobby.LobbyistName, lobby.Client, lobby.Category>>,
     color |-> "#f39c12", size |-> Num(20 * SizeUnit)]

\* the edge weight is kept doubled: 2 is weight 1, 1 is weight 0.5
LobbyistEdge(lobby) ==
    [weight2 |-> 2, color |-> "#f39c12", title |-> <<T("Lobbies on"), lobby.Category>>]

\* lines 115-126, one row
AddLobbyist(g, lobby) ==
    ConnectFrom(add_node(g, lobby.LobbyistName, LobbyistAttrs(lobby)),
                lobby.LobbyistName, LobbyistEdge(lobby), 1)

VendorAttrs(vendor) ==
    [node_type |-> "vendor",
     title |-> <<vendor.VendorName, vendor.Category, vendor.Department>>,
     color |-> "#9b59b6", size |-> Num(15 * SizeUnit)]

VendorEdge_AsLobbyist(vendor) ==
    [weight2 |-> 2, color |-> "#f39c12", title |-> <<T("Lobbies on"), vendor.Category>>]

VendorEdge(vendor) ==
    [weight2 |-> 1, color |-> "#9b59b6",
     title |-> <<T("County contractor -"), vendor.Category>>]

\* lines 130-141, one row
AddVendor(g, vendor) ==
    ConnectFrom(add_node(g, vendor.VendorName, VendorAttrs(vendor)),
                vendor.VendorName, VendorEdge(vendor), 1)

RECURSIVE AddOfficialsFrom(_, _, _)
AddOfficialsFrom(g, fin, k) ==
    IF k > Len(ALL_OFFICIALS) THEN g
    ELSE AddOfficialsFrom(AddOfficial(g, fin, ALL_OFFICIALS[k]), fin, k + 1)

RECURSIVE AddLobbyistsFrom(_, _, _)
AddLobbyistsFrom(g, lob, k) ==
    IF k > Len(lob) THEN g ELSE AddLobbyistsFrom(AddLobbyist(g, lob[k]), lob, k + 1)

RECURSIVE AddVendorsFrom(_, _, _)
AddVendorsFrom(g, ven, k) ==
    IF k > Len(ven) THEN g ELSE AddVendorsFrom(AddVendor(g, ven[k]), ven, k + 1)

\* the graph the function returns, for a non-empty finance frame
create_money_flow_network(fin, lob, ven) ==
    AddVendorsFrom(AddLobbyistsFrom(AddOfficialsFrom(EmptyGraph, fin, 1), lob, 1), ven, 1)

\* the loop to run after the officials' loop / the lobbyists' loop
AfterOfficials == IF lobbyists # <<>> THEN "net_lobbyists"
                  ELSE IF vendors # <<>> THEN "net_vendors" ELSE "net_return"

AfterLobbyists == IF vendors # <<>> THEN "net_vendors" ELSE "net_return"

-----------------------------------------------------------------------------
(* Inputs of the model *)

JackCagle == <<"J","a","c","k"," ","C","a","g","l","e">>   \* not in the roster

AnnLee == <<"A","n","n"," ","L","e","e">>

Period1 == T("Jan 2025")

Period2 == T("Jul 2024")

Empty == <<>>

FinanceRows(names, periods, raised, spent, loans, cash) ==
    [Name : names, ReportPeriod : periods, Raised : raised, Spent : spent,
     Loans : loans, CashOnHand : cash]

LobbyistRows(names, clients, categories) ==
    [LobbyistName : names, Client : clients, Category : categories]

VendorRows(names, categories, departments) ==
    [VendorName : names, Category : categories, Department : departments]

OneLobbyist == <<[LobbyistName |-> AnnLee, Client |-> AbCo, Category |-> T("Energy")]>>

OneVendor == <<[VendorName |-> AbCo, Category |-> T("Construction"),
                Department |-> T("Engineering")]>>

OneFiling == <<[Name |-> RodneyEllis, ReportPeriod |-> Period1, Raised |-> <<"5">>,
                Spent |-> <<"6">>, Loans |-> Empty, CashOnHand |-> <<"9">>]>>

NoSankey == [labels |-> <<>>, sources |-> <<>>, targets |-> <<>>, values |-> <<>>]

\* the state when main() starts: the three files, nothing computed yet
InitMain(csvs, lobs, vens) ==
    /\ csv_finance \in csvs
    /\ lobbyists \in lobs
    /\ vendors \in vens
    /\ pc = "load"
    /\ ret = "tab3"
    /\ error = NoError
    /\ finance = <<>>
    /\ latest_period = NA
    /\ latest_current = <<>>
    /\ deficit_spenders = <<>>
    /\ G = EmptyGraph
    /\ net_i = 1
    /\ sankey = NoSankey
    /\ potential_overlaps = <<>>
    /\ ratio_flags = <<>>
    /\ loans_data = <<>>
    /\ concentration = NoWarning

\* (Raised, Spent, Loans) cells: raised missing, zero, a deficit at ratio 1.2
\* exactly, above it, no spending, spending missing; loans missing, zero, tied
RaisedSpentPool ==
    {<<Empty, <<"6">>, <<"4">>>>, <<<<"0">>, <<"6">>, Empty>>, <<<<"5">>, <<"6">>, <<"0">>>>,
     <<<<"5">>, <<"7">>, <<"3">>>>, <<<<"5">>, <<"0">>, Empty>>, <<<<"5">>, <<"x">>, <<"3">>>>}

\* filings that vary in who filed, when, and what was raised, spent and lent
FilingPool ==
    {[Name |-> n, ReportPeriod |-> p, Raised |-> rs[1], Spent |-> rs[2],
      Loans |-> rs[3], CashOnHand |-> <<"9">>] :
        n \in {RodneyEllis, JackCagle}, p \in {Period1, Period2}, rs \in RaisedSpentPool}

Init == InitMain(SeqsUpTo(FilingPool, MaxRows), {OneLobbyist}, {OneVendor})

\* raw cells of every kind in the Raised and Spent columns
RawCellPool ==
    FinanceRows({RodneyEllis}, {Period1},
                {Empty, <<"x">>, <<"1","2">>, <<"-","5">>, <<"-">>, <<"1","x">>},
                {Empty, <<"0">>, <<"-","1","0">>, <<"7">>},
                {Empty}, {<<"9">>})

InitLoad == InitMain(SeqsUpTo(RawCellPool, MaxRows), {OneLobbyist}, {OneVendor})

\* main() about to run line 442, the "Cash Trends" view having been shown
InitOverlap ==
    /\ csv_finance = OneFiling
    /\ lobbyists \in SeqsUpTo(LobbyistRows({AnnLee}, NamePool, {T("Energy")}), MaxLobbyists)
    /\ vendors \in SeqsUpTo(VendorRows(NamePool, {T("Construction")}, {T("Engineering")}),
                            MaxVendors)
    /\ pc = "tab3"
    /\ ret = "tab3"
    /\ error = NoError
    /\ finance = load_data(OneFiling)
    /\ latest_period = LatestPeriod(load_data(OneFiling))
    /\ latest_current = LatestCurrent(load_data(OneFiling))
    /\ deficit_spenders = DeficitSpenders(LatestCurrent(load_data(OneFiling)))
    /\ G = EmptyGraph
    /\ net_i = 1
    /\ sankey = NoSankey
    /\ potential_overlaps = <<>>
    /\ ratio_flags = <<>>
    /\ loans_data = <<>>
    /\ concentration = NoWarning

\* vendors of every category mix, a missing category included
ConcentrationVendorPool ==
    VendorRows({AbCo, CoCo}, {T("Construction"), T("Legal"), NA},
               {T("Engineering"), T("County Attorney")})

\* main() about to run line 505, the "Cash Trends" view having been shown
InitConcentration ==
    /\ csv_finance = OneFiling
    /\ lobbyists = OneLobbyist
    /\ vendors \in SeqsUpTo(ConcentrationVendorPool, MaxVendors)
    /\ pc = "concentration"
    /\ ret = "tab3"
    /\ error = NoError
    /\ finance = load_data(OneFiling)
    /\ latest_period = LatestPeriod(load_data(OneFiling))
    /\ latest_current = LatestCurrent(load_data(OneFiling))
    /\ deficit_spenders = DeficitSpenders(LatestCurrent(load_data(OneFiling)))
    /\ G = EmptyGraph
    /\ net_i = 1
    /\ sankey = NoSankey
    /\ potential_overlaps \in PotentialOverlaps(lobbyists, "Client", vendors, "VendorName")
    /\ ratio_flags = SpendingAnomalies(load_data(OneFiling))
    /\ loans_data \in LoansData(LatestCurrent(load_data(OneFiling)))
    /\ concentration = NoWarning

-----------------------------------------------------------------------------
(* main (lines 232-527) *)

main_outputs == <<latest_period, latest_current, deficit_spenders, sankey,
                  potential_overlaps, ratio_flags, loans_data, concentration>>

inputs == <<csv_finance, lobbyists, vendors>>

\* line 238
LoadData ==
    /\ pc = "load"
    /\ finance' = load_data(csv_finance)
    /\ pc' = "latest"
    /\ UNCHANGED <<ret, error, inputs, main_outputs, G, net_i>>

\* lines 253-255; iloc[0] raises IndexError on an empty frame
SelectLatest ==
    /\ pc = "latest"
    /\ IF finance = <<>>
       THEN /\ pc' = "error"
            /\ error' = "IndexError"
            /\ UNCHANGED <<latest_period, latest_current>>
       ELSE /\ pc' = "tab1"
            /\ latest_period' = LatestPeriod(finance)
            /\ latest_current' = LatestCurrent(finance)
            /\ UNCHANGED error
    /\ UNCHANGED <<ret, inputs, finance, deficit_spenders, G, net_i, sankey,
                   potential_overlaps, ratio_flags, loans_data, concentration>>

\* lines 337-346
KeyInsights ==
    /\ pc = "tab1"
    /\ deficit_spenders' = DeficitSpenders(latest_current)
    /\ pc' = "tab2"
    /\ UNCHANGED <<ret, error, inputs, finance, latest_period, latest_current, G, net_i,
                   sankey, potential_overlaps, ratio_flags, loans_data, concentration>>

\* lines 374-384: viz_type == "Network Graph"
ShowNetwork ==
    /\ pc = "tab2"
    /\ pc' = "net_start"
    /\ ret' = "tab3"
    /\ UNCHANGED <<error, inputs, finance, main_outputs, G, net_i>>

\* lines 392-395: viz_type == "Money Flow (Sankey)"
ShowSankey ==
    /\ pc = "tab2"
    /\ sankey' = create_sankey_diagram(finance)
    /\ pc' = "tab3"
    /\ UNCHANGED <<ret, error, inputs, finance, latest_period, latest_current,
                   deficit_spenders, G, net_i, potential_overlaps, ratio_flags,
                   loans_data, concentration>>

\* lines 399-427: viz_type == "Cash Trends" (charts only)
ShowCashTrends ==
    /\ pc = "tab2"
    /\ pc' = "tab3"
    /\ UNCHANGED <<ret, error, inputs, finance, main_outputs, G, net_i>>

\* lines 442-456
RedFlagsOverlap ==
    /\ pc = "tab3"
    /\ potential_overlaps' \in PotentialOverlaps(lobbyists, "Client", vendors, "VendorName")
    /\ pc' = "ratio"
    /\ UNCHANGED <<ret, error, inputs, finance, latest_period, latest_current,
                   deficit_spenders, G, net_i, sankey, ratio_flags, loans_data,
                   concentration>>

\* lines 471-484
RedFlagsRatio ==
    /\ pc = "ratio"
    /\ ratio_flags' = SpendingAnomalies(finance)
    /\ pc' = "loans"
    /\ UNCHANGED <<ret, error, inputs, finance, latest_period, latest_current,
                   deficit_spenders, G, net_i, sankey, potential_overlaps, loans_data,
                   concentration>>

\* lines 492-497
RedFlagsLoans ==
    /\ pc = "loans"
    /\ loans_data' \in LoansData(latest_current)
    /\ pc' = "concentration"
    /\ UNCHANGED <<ret, error, inputs, finance, latest_period, latest_current,
                   deficit_spenders, G, net_i, sankey, potential_overlaps, ratio_flags,
                   concentration>>

\* lines 505-514; vendor_cats.iloc[0] raises IndexError when no category is counted
RedFlagsConcentration ==
    /\ pc = "concentration"
    /\ IF Categories(vendors) = {}
       THEN /\ pc' = "error"
            /\ error' = "IndexError"
            /\ UNCHANGED concentration
       ELSE /\ pc' = "done"
            /\ \E top \in TopCategories(vendors) :
                  concentration' = ConcentrationWarning(vendors, top)
            /\ UNCHANGED error
    /\ UNCHANGED <<ret, inputs, finance, latest_period, latest_current, deficit_spenders,
                   G, net_i, sankey, potential_overlaps, ratio_flags, loans_data>>

-----------------------------------------------------------------------------
(* create_money_flow_network, statement by statement *)

\* lines 97-101; iloc[0] raises IndexError on an empty frame
NetStart ==
    /\ pc = "net_start"
    /\ IF finance = <<>>
       THEN /\ pc' = "error"
            /\ error' = "IndexError"
            /\ UNCHANGED <<G, net_i>>
       ELSE /\ pc' = "net_officials"
            /\ G' = EmptyGraph
            /\ net_i' = 1
            /\ UNCHANGED error
    /\ UNCHANGED <<ret, inputs, finance, main_outputs>>

\* lines 104-111
NetAddOfficial ==
    /\ pc = "net_officials"
    /\ G' = AddOfficial(G, finance, ALL_OFFICIALS[net_i])
    /\ IF net_i < Len(ALL_OFFICIALS)
       THEN net_i' = net_i + 1 /\ pc' = pc
       ELSE net_i' = 1 /\ pc' = AfterOfficials
    /\ UNCHANGED <<ret, error, inputs, finance, main_outputs>>

\* lines 114-126
NetAddLobbyist ==
    /\ pc = "net_lobbyists"
    /\ G' = AddLobbyist(G, lobbyists[net_i])
    /\ IF net_i < Len(lobbyists)
       THEN net_i' = net_i + 1 /\ pc' = pc
       ELSE net_i' = 1 /\ pc' = AfterLobbyists
    /\ UNCHANGED <<ret, error, inputs, finance, main_outputs>>

\* lines 129-141
NetAddVendor ==
    /\ pc = "net_vendors"
    /\ G' = AddVendor(G, vendors[net_i])
    /\ IF net_i < Len(vendors)
       THEN net_i' = net_i + 1 /\ pc' = pc
       ELSE net_i' = 1 /\ pc' = "net_return"
    /\ UNCHANGED <<ret, error, inputs, finance, main_outputs>>

\* line 143
NetReturn ==
    /\ pc = "net_return"
    /\ pc' = ret
    /\ UNCHANGED <<ret, error, inputs, finance, main_outputs, G, net_i>>

\* create_money_flow_network called on its own, on frames load_data can return
NetFilingPool ==
    {[Name |-> RodneyEllis, ReportPeriod |-> Period1, Raised |-> <<"5">>, Spent |-> <<"6">>,
      Loans |-> Empty, CashOnHand |-> <<"9">>],
     [Name |-> TomRamsey, ReportPeriod |-> Period1, Raised |-> <<"5">>, Spent |-> <<"0">>,
      Loans |-> Empty, CashOnHand |-> Empty],
     [Name |-> JackCagle, ReportPeriod |-> Period2, Raised |-> <<"5">>, Spent |-> <<"6">>,
      Loans |-> Empty, CashOnHand |-> <<"9">>]}

\* a lobbyist registered twice under two categories, and one who bears an
\* official's name
NetLobbyistPool ==
    {[LobbyistName |-> AnnLee, Client |-> AbCo, Category |-> T("Energy")],
     [LobbyistName |-> AnnLee, Client |-> AbCoLtd, Category |-> T("Legal")],
     [LobbyistName |-> RodneyEllis, Client |-> AbCo, Category |-> T("Energy")]}

\* a vendor, one who is also a lobbyist, one who bears an official's name
NetVendorPool ==
    {[VendorName |-> AbCo, Category |-> T("Construction"), Department |-> T("Engineering")],
     [VendorName |-> AnnLee, Category |-> T("Legal"), Department |-> T("County Attorney")],
     [VendorName |-> TomRamsey, Category |-> T("Construction"), Department |-> T("Engineering")]}

InitNetwork ==
    /\ csv_finance \in SeqsUpTo(NetFilingPool, MaxRows)
    /\ lobbyists \in SeqsUpTo(NetLobbyistPool, MaxLobbyists)
    /\ vendors \in SeqsUpTo(NetVendorPool, MaxVendors)
    /\ finance = load_data(csv_finance)
    /\ pc = "net_start"
    /\ ret = "returned"
    /\ error = NoError
    /\ latest_period = NA
    /\ latest_current = <<>>
    /\ deficit_spenders = <<>>
    /\ G = EmptyGraph
    /\ net_i = 1
    /\ sankey = NoSankey
    /\ potential_overlaps = <<>>
    /\ ratio_flags = <<>>
    /\ loans_data = <<>>
    /\ concentration = NoWarning

NextNetwork == NetStart \/ NetAddOfficial \/ NetAddLobbyist \/ NetAddVendor \/ NetReturn

Next ==
    \/ LoadData \/ SelectLatest \/ KeyInsights
    \/ ShowNetwork \/ ShowSankey \/ ShowCashTrends
    \/ NetStart \/ NetAddOfficial \/ NetAddLobbyist \/ NetAddVendor \/ NetReturn
    \/ RedFlagsOverlap \/ RedFlagsRatio \/ RedFlagsLoans \/ RedFlagsConcentration

Spec == Init /\ [][Next]_vars

SpecLoad == InitLoad /\ [][Next]_vars

SpecNetwork == InitNetwork /\ [][NextNetwork]_vars

SpecOverlap == InitOverlap /\ [][RedFlagsOverlap]_vars

SpecConcentration == InitConcentration /\ [][RedFlagsConcentration]_vars

-----------------------------------------------------------------------------
(* Overlap detection *)

\* the words of a text, said without str.split(): the maximal runs of
\* non-whitespace characters
WordStarts(s) == {i \in 1..Len(s) : ~IsSpace(s[i]) /\ (i = 1 \/ IsSpace(s[i - 1]))}

WordEnd(s, i) ==
    CHOOSE j \in i..Len(s) :
        /\ \A k \in i..j : ~IsSpace(s[k])
        /\ (j = Len(s) \/ IsSpace(s[j + 1]))

WordsOf(s) == {SubSeq(s, i, WordEnd(s, i)) : i \in WordStarts(s)}

\* the words a 'Common Words' text lists: it is split at ", "
ListedWords(text) ==
    LET parts == StrSplit(text)
    IN  {IF i < Len(parts) THEN SubSeq(parts[i], 1, Len(parts[i]) - 1) ELSE parts[i] :
            i \in 1..Len(parts)}

OverlapSet(list) ==
    {[client |-> list[k].LobbyistClient, vendor |-> list[k].VendorName,
      shared |-> ListedWords(list[k].CommonWordsText)] : k \in 1..Len(list)}

Swapped(recs) == {[client |-> r.vendor, vendor |-> r.client, shared |-> r.shared] : r \in recs}

ClientNames == {StrUpper(lobbyists[i].Client) : i \in {j \in 1..Len(lobbyists) : lobbyists[j].Client # NA}}

VendorNames == {StrUpper(vendors[i].VendorName) : i \in {j \in 1..Len(vendors) : vendors[j].VendorName # NA}}

OverlapDone == pc = "ratio"

\* C1: the overlap records are exactly one record for each pair of an
\* uppercased client name and an uppercased vendor name whose word sets share
\* at least 2 words, none for a pair sharing fewer, and a record's shared words
\* are the intersection of the two word sets.
C1_OverlapsExact ==
    OverlapDone =>
        /\ \A c \in ClientNames, v \in VendorNames :
              Cardinality({k \in 1..Len(potential_overlaps) :
                              /\ potential_overlaps[k].LobbyistClient = c
                              /\ potential_overlaps[k].VendorName = v})
              = (IF Cardinality(WordsOf(c) \cap WordsOf(v)) >= 2 THEN 1 ELSE 0)
        /\ \A k \in 1..Len(potential_overlaps) :
              /\ potential_overlaps[k].LobbyistClient \in ClientNames
              /\ potential_overlaps[k].VendorName \in VendorNames
              /\ ListedWords(potential_overlaps[k].CommonWordsText)
                    = WordsOf(potential_overlaps[k].LobbyistClient)
                        \cap WordsOf(potential_overlaps[k].VendorName)

\* C1 witness: two rows name the same client in different case, and the run
\* emitted a record for it and none for a vendor sharing one word only.
C1_Witness ==
    /\ OverlapDone
    /\ Len(potential_overlaps) = 1
    /\ Cardinality(ClientNames) = 1
    /\ \E i, j \in 1..Len(lobbyists) :
          /\ lobbyists[i].Client = AbCo
          /\ lobbyists[j].Client = AbCoMixed
    /\ \E i, j \in 1..Len(vendors) :
          /\ vendors[i].VendorName = CoCo
          /\ vendors[j].VendorName = AbCoMixed

OneOrdering(S) == CHOOSE s \in Orderings(S) : TRUE

\* the records of one run of the loops of lines 446-456 over the given frames
OneRun(lob, col_l, ven, col_v) ==
    OverlapSet(CHOOSE list \in
        {OuterLoop(cs, vs, rank) :
            cs \in {OneOrdering(UpperNames(lob, col_l))},
            vs \in {OneOrdering(UpperNames(ven, col_v))},
            rank \in {OneOrdering(AllWords(UpperNames(lob, col_l))
                                     \cap AllWords(UpperNames(ven, col_v)))}} : TRUE)

\* C2: the records of a run equal those of a run on any reordering of the
\* client list or of the vendor list, and, with client and vendor exchanged, those of a run that takes the
\* vendor names as clients and the client names as vendors.  (Both lists are
\* drawn from one pool, so the run on the exchanged lists, in each of its
\* iteration orders, is itself checked against this one.)
C2_OverlapsSymmetric ==
    pc = "ratio" =>
        LET found == OverlapSet(potential_overlaps)
        IN  /\ \A L \in Permutations_(lobbyists) :
                  found = OneRun(L, "Client", vendors, "VendorName")
            /\ \A V \in Permutations_(vendors) :
                  found = OneRun(lobbyists, "Client", V, "VendorName")
            /\ found = Swapped(OneRun(vendors, "VendorName", lobbyists, "Client"))

\* C2 witness: a run over two distinct client names and two distinct vendor
\* names that emitted a record.
C2_Witness ==
    /\ pc = "ratio"
    /\ Cardinality(ClientNames) = 2
    /\ Cardinality(VendorNames) = 2
    /\ ClientNames # VendorNames
    /\ \E k \in 1..Len(potential_overlaps) :
          potential_overlaps[k].LobbyistClient # potential_overlaps[k].VendorName

-----------------------------------------------------------------------------
(* Flow allocation *)

Roster == {LinaHidalgo, RodneyEllis, AdrianGarcia, TomRamsey, LesleyBriones}

SankeyShown == sankey # NoSankey

\* the values of the flow-list entries whose source is node i, in list order
ValuesLeaving(i) ==
    LET at == SelectSeq([j \in 1..Len(sankey.sources) |-> j],
                        LAMBDA j : sankey.sources[j] = i)
    IN  [k \in 1..Len(at) |-> sankey.values[at[k]]]

\* C3: for every latest-period roster official whose spent value S is greater
\* than 0, the Stage-2 values leaving the official's node are 0.4*S, 0.3*S,
\* 0.2*S and 0.1*S, and they sum to S (values in tenths of a unit).
C3_FlowConservation ==
    SankeyShown =>
        \A i \in 1..Len(latest_current) :
            LET S == latest_current[i].Spent
            IN  (notna(S) /\ S.val > 0) =>
                    /\ ValuesLeaving(i) = <<4 * S.val, 3 * S.val, 2 * S.val, S.val>>
                    /\ SumSeq(ValuesLeaving(i)) = 10 * S.val

\* C3 witness: the diagram was built for an official who spent 6.
C3_Witness ==
    /\ SankeyShown
    /\ Len(latest_current) = 2
    /\ latest_current[2].Name = RodneyEllis
    /\ latest_current[2].Spent = Num(6)
    /\ ValuesLeaving(2) = <<24, 18, 12, 6>>

-----------------------------------------------------------------------------
(* Anomaly rules *)

RowsOf(official) == {i \in 1..Len(finance) : finance[i].Name = official}

RECURSIVE SumOver(_, _)
SumOver(I, col) ==
    IF I = {} THEN 0
    ELSE LET i == CHOOSE x \in I : TRUE
         IN  (IF finance[i][col].nan THEN 0 ELSE finance[i][col].val) + SumOver(I \ {i}, col)

LifetimeRaised(official) == SumOver(RowsOf(official), "Raised")

LifetimeSpent(official) == SumOver(RowsOf(official), "Spent")

RatioDone == pc \in {"loans", "concentration", "done"}

FlagsOf(official) == {k \in 1..Len(ratio_flags) : ratio_flags[k].official = official}

\* C4: a roster official is flagged exactly when the lifetime raised total is
\* above zero and lifetime spent is more than 1.2 times it; the flag carries the
\* two totals; only roster officials are flagged.
C4_LifetimeRatioRule ==
    RatioDone =>
        /\ \A o \in Roster :
              /\ Cardinality(FlagsOf(o))
                    = (IF LifetimeRaised(o) > 0 /\ 10 * LifetimeSpent(o) > 12 * LifetimeRaised(o)
                       THEN 1 ELSE 0)
              /\ (LifetimeRaised(o) = 0 => FlagsOf(o) = {})
              /\ (10 * LifetimeSpent(o) = 12 * LifetimeRaised(o) => FlagsOf(o) = {})
              /\ \A k \in FlagsOf(o) :
                    /\ ratio_flags[k].total_raised = LifetimeRaised(o)
                    /\ ratio_flags[k].total_spent = LifetimeSpent(o)
        /\ \A k \in 1..Len(ratio_flags) : ratio_flags[k].official \in Roster

\* C4 witness: an official whose two filings add up to a ratio of exactly 1.2
\* was left unflagged.
C4_Witness ==
    /\ RatioDone
    /\ Cardinality(RowsOf(RodneyEllis)) = 2
    /\ LifetimeRaised(RodneyEllis) = 10
    /\ LifetimeSpent(RodneyEllis) = 12
    /\ ratio_flags = <<>>

DeficitDone == pc \notin {"load", "latest", "tab1", "error"}

\* the latest-period roster records with spent and raised present, spent > raised
DeficitRows ==
    {i \in 1..Len(latest_current) :
        /\ ~latest_current[i].Spent.nan
        /\ ~latest_current[i].Raised.nan
        /\ latest_current[i].Spent.val > latest_current[i].Raised.val}

ExpectedLine(i) ==
    [Name |-> latest_current[i].Name,
     deficit |-> latest_current[i].Spent.val - latest_current[i].Raised.val]

\* C7: the emitted lines are, record for record, the latest-period roster
\* records whose spent and raised are present with spent > raised (so a record
\* with a missing amount is not flagged); each line's deficit is spent - raised
\* and is positive.
C7_DeficitRule ==
    DeficitDone =>
        /\ \A i \in DeficitRows :
              Cardinality({k \in 1..Len(deficit_spenders) : deficit_spenders[k] = ExpectedLine(i)})
                  = Cardinality({j \in DeficitRows : ExpectedLine(j) = ExpectedLine(i)})
        /\ \A k \in 1..Len(deficit_spenders) :
              /\ deficit_spenders[k].deficit > 0
              /\ \E i \in DeficitRows : deficit_spenders[k] = ExpectedLine(i)
        /\ Len(deficit_spenders) = Cardinality(DeficitRows)

\* C7 witness: one record with raised 5 and spent 6 was flagged with deficit 1
\* and a record with no raised amount was not.
C7_Witness ==
    /\ DeficitDone
    /\ Len(latest_current) = 2
    /\ latest_current[1].Raised = NaN /\ latest_current[1].Spent = Num(6)
    /\ latest_current[2].Raised = Num(5) /\ latest_current[2].Spent = Num(6)
    /\ deficit_spenders = <<[Name |-> RodneyEllis, deficit |-> 1]>>

-----------------------------------------------------------------------------
(* Numeric normalization *)

Loaded == pc # "load"

NumericColumns == {"Raised", "Spent", "Loans", "CashOnHand"}

\* a text that is a number: digits, with an optional sign in front
LooksNumeric(text) ==
    \/ IsDigits(text)
    \/ (text # <<>> /\ text[1] = "-" /\ IsDigits(Tail(text)))

\* C5: after load_data every Raised, Spent, Loans and CashOnHand cell is a
\* number >= 0 or missing, a non-numeric or empty text is missing, and the
\* load did not raise.
C5_NormalizedNonNegative ==
    Loaded =>
        /\ Len(finance) = Len(csv_finance)
        /\ \A i \in 1..Len(finance), col \in NumericColumns :
              /\ finance[i][col].nan \/ finance[i][col].val >= 0
              /\ (~LooksNumeric(csv_finance[i][col]) => finance[i][col].nan)

-----------------------------------------------------------------------------
(* Relationship graph *)

NodesOfType(t) == {n \in DOMAIN G.node : G.node[n].node_type = t}

Returned == pc = "returned"

\* C8: when create_money_flow_network has returned, every lobbyist node is
\* joined to every official node by an edge of weight 1 labeled with the
\* lobbyist's category, and every vendor node to every official node by an
\* edge of weight 0.5 labeled with the vendor's category (weights doubled).
C8_GraphEdges ==
    Returned =>
        /\ \A l \in NodesOfType("lobbyist"), o \in NodesOfType("official") :
              /\ {l, o} \in DOMAIN G.edge
              /\ G.edge[{l, o}].weight2 = 2
              /\ G.edge[{l, o}].title = <<T("Lobbies on"), G.node[l].title[3]>>
        /\ \A v \in NodesOfType("vendor"), o \in NodesOfType("official") :
              /\ {v, o} \in DOMAIN G.edge
              /\ G.edge[{v, o}].weight2 = 1
              /\ G.edge[{v, o}].title = <<T("County contractor -"), G.node[v].title[2]>>

\* C8 witness: a graph with two officials, a lobbyist registered under two
\* categories and a vendor.
C8_Witness ==
    /\ Returned
    /\ NodesOfType("official") = {RodneyEllis, TomRamsey}
    /\ NodesOfType("lobbyist") = {AnnLee}
    /\ NodesOfType("vendor") = {AbCo}
    /\ Len(lobbyists) = 2
    /\ lobbyists[1].Category # lobbyists[2].Category

\* C9: create_money_flow_network returns without raising whatever the frames
\* hold, and a graph without official nodes has no edges.
C9_GracefulOnEmpty ==
    /\ pc \in {"returned", "error"} => error = NoError
    /\ (Returned /\ NodesOfType("official") = {}) => DOMAIN G.edge = {}

-----------------------------------------------------------------------------
(* Reordering and roster scoping *)

BagOf(seq) == [x \in ToSet(seq) |-> Cardinality({i \in 1..Len(seq) : seq[i] = x})]

Selected == pc \notin {"load", "latest", "error"}

\* the roster officials who have records; the others have nothing to sum
RosterOnFile == {o \in Roster : RowsOf(o) # {}}

\* the lifetime totals of the run, per roster official
LifetimeTotals == [o \in RosterOnFile |-> <<LifetimeRaised(o), LifetimeSpent(o)>>]

\* the lifetime totals of every roster official over the frame `fin` are `totals`
SameLifetimeTotals(fin, totals) ==
    \A o \in DOMAIN totals : <<TotalRaised(fin, o), TotalSpent(fin, o)>> = totals[o]

\* the latest period and the records selected for it over the frame `fin` are
\* those of the run
SameLatestFigures(fin) ==
    /\ LatestPeriod(fin) = latest_period
    /\ BagOf(LatestCurrent(fin)) = BagOf(latest_current)

\* C6 as claimed: for every reordering of the records, the latest period, the
\* records selected for it and every official's lifetime totals are those of
\* the run.
C6_ReorderAny ==
    Selected =>
        LET totals == LifetimeTotals
        IN  \A P \in Permutations_(finance) :
                SameLatestFigures(P) /\ SameLifetimeTotals(P, totals)

\* C6 amended: every official's lifetime totals are the same for every
\* reordering of the records; the latest period and the records selected for it
\* are the same for every reordering that leaves the ReportPeriod of the first
\* record unchanged.
C6_ReorderKeepingFirstPeriod ==
    Selected =>
        LET totals == LifetimeTotals
        IN  \A P \in Permutations_(finance) :
                /\ SameLifetimeTotals(P, totals)
                /\ P[1].ReportPeriod = finance[1].ReportPeriod => SameLatestFigures(P)

\* C6 witness: two different latest-period filings of a roster official were
\* selected; exchanging them keeps the first record's period.
C6_Witness ==
    /\ Selected
    /\ Len(latest_current) = 2
    /\ latest_current[1] # latest_current[2]
    /\ latest_current[1].Raised # latest_current[2].Raised

NonRosterRows == {i \in 1..Len(finance) : finance[i].Name \notin Roster}

Without(D) ==
    LET keep == SelectSeq([i \in 1..Len(finance) |-> i], LAMBDA i : i \notin D)
    IN  [k \in 1..Len(keep) |-> finance[keep[k]]]

NetworkShown == pc = "done" /\ G # EmptyGraph

SankeyOfficials == {sankey.labels[i] : i \in 2..(Len(sankey.labels) - 4)}

\* every official named by a roster-scoped output is in the roster
ScopedToRoster ==
    /\ NodesOfType("official") \subseteq Roster
    /\ SankeyShown => SankeyOfficials \subseteq Roster
    /\ \A k \in 1..Len(latest_current) : latest_current[k].Name \in Roster
    /\ \A k \in 1..Len(deficit_spenders) : deficit_spenders[k].Name \in Roster
    /\ \A k \in 1..Len(loans_data) : loans_data[k].Name \in Roster
    /\ \A k \in 1..Len(ratio_flags) : ratio_flags[k].official \in Roster

\* the outputs of the finished run are those of a run on the frame `fin`
SameOutputs(fin) ==
    /\ latest_current = LatestCurrent(fin)
    /\ deficit_spenders = DeficitSpenders(LatestCurrent(fin))
    /\ ratio_flags = SpendingAnomalies(fin)
    /\ loans_data \in LoansData(LatestCurrent(fin))
    /\ SankeyShown => sankey = create_sankey_diagram(fin)
    /\ NetworkShown => G = create_money_flow_network(fin, lobbyists, vendors)

\* C10 as claimed: the roster-scoped outputs name roster officials only, and
\* they are what they would be without any of the records of officials outside
\* the roster (some record being left).
C10_RosterScopedAlways ==
    /\ ScopedToRoster
    /\ pc = "done" =>
          \A D \in SUBSET NonRosterRows : Without(D) # <<>> => SameOutputs(Without(D))

\* C10 amended: the roster-scoped outputs name roster officials only, and they
\* are what they would be without any of the records of officials outside the
\* roster, as long as the first record left has the ReportPeriod of the first
\* record of the collection.
C10_RosterScopedGivenPeriod ==
    /\ ScopedToRoster
    /\ pc = "done" =>
          \A D \in SUBSET NonRosterRows :
              (Without(D) # <<>> /\ Without(D)[1].ReportPeriod = finance[1].ReportPeriod)
                  => SameOutputs(Without(D))

\* C10 witness: a run that showed the graph, over a roster official's deficit
\* filing preceded by a same-period filing of an official outside the roster.
C10_Witness ==
    /\ NetworkShown
    /\ Len(finance) = 2
    /\ finance[1].Name = JackCagle
    /\ finance[2].Name = RodneyEllis
    /\ finance[1].ReportPeriod = finance[2].ReportPeriod
    /\ Len(deficit_spenders) = 1
    /\ RodneyEllis \in NodesOfType("official")

-----------------------------------------------------------------------------
(* Vendor concentration *)

ConcentrationDone == pc \in {"done", "error"}

VendorsIn(cat) == {i \in 1..Len(vendors) : vendors[i].Category = cat}

\* the categories held by strictly more than half of all vendors
MajorityCategories ==
    {cat \in {vendors[i].Category : i \in 1..Len(vendors)} \ {NA} :
        Cardinality(VendorsIn(cat)) * 2 > Len(vendors)}

\* C11: the concentration step never raises, an empty vendor collection
\* included; a category is flagged if and only if more than half of all vendors
\* are in it, and the share reported is its count over the number of vendors.
C11_ConcentrationRule ==
    ConcentrationDone =>
        /\ error = NoError
        /\ concentration.flagged <=> MajorityCategories # {}
        /\ concentration.flagged =>
              /\ concentration.category \in MajorityCategories
              /\ concentration.share =
                    <<Cardinality(VendorsIn(concentration.category)), Len(vendors)>>

-----------------------------------------------------------------------------
(* Flow list shape *)

\* node indices of the flow list: 0 is the donor node, then one node per
\* latest-period roster record, then the four category nodes
NodeCount == Len(sankey.labels)

OfficialNodes == 1..Len(latest_current)

CategoryNodes == (Len(latest_current) + 1)..(Len(latest_current) + 4)

LinksFrom(i) == {j \in 1..Len(sankey.sources) : sankey.sources[j] = i}

\* C12: an official with spent > 0 has exactly four Stage-2 edges, from the
\* official's own node to the four category nodes, one each; an official with
\* spent zero or missing has none; every index of the flow list is that of a
\* node label, Stage-1 edges ending at official nodes and Stage-2 edges at
\* category nodes.
C12_Stage2Emission ==
    SankeyShown =>
        /\ NodeCount = Len(latest_current) + 5
        /\ \A i \in OfficialNodes :
              LET S == latest_current[i].Spent
              IN  IF notna(S) /\ S.val > 0
                  THEN /\ Cardinality(LinksFrom(i)) = 4
                       /\ {sankey.targets[j] : j \in LinksFrom(i)} = CategoryNodes
                  ELSE LinksFrom(i) = {}
        /\ Len(sankey.targets) = Len(sankey.sources)
        /\ \A j \in 1..Len(sankey.sources) :
              /\ sankey.sources[j] \in 0..(NodeCount - 1)
              /\ sankey.targets[j] \in 0..(NodeCount - 1)
              /\ sankey.sources[j] = 0 => sankey.targets[j] \in OfficialNodes
              /\ sankey.sources[j] # 0 =>
                    /\ sankey.sources[j] \in OfficialNodes
                    /\ sankey.targets[j] \in CategoryNodes

\* C12 witness: a diagram for two records, the first without spending, the
\* second spending 7.
C12_Witness ==
    /\ SankeyShown
    /\ Len(latest_current) = 2
    /\ latest_current[1].Spent = Num(0)
    /\ latest_current[2].Spent = Num(7)
    /\ LinksFrom(1) = {}
    /\ Cardinality(LinksFrom(2)) = 4

-----------------------------------------------------------------------------
(* Self-funded campaigns *)

LoansDone == pc \in {"concentration", "done"}

\* the latest-period roster records whose loans are present and above zero
LentRows ==
    {i \in 1..Len(latest_current) :
        /\ latest_current[i].Name \in Roster
        /\ ~latest_current[i].Loans.nan
        /\ latest_current[i].Loans.val > 0}

\* C13: the self-funded list holds exactly the latest-period roster records
\* whose loans are present and strictly greater than 0, each once, and every
\* entry's loan amount is greater than or equal to the next entry's.
C13_SelfFundedRule ==
    LoansDone =>
        /\ Len(loans_data) = Cardinality(LentRows)
        /\ \A i \in LentRows :
              Cardinality({k \in 1..Len(loans_data) : loans_data[k] = latest_current[i]})
                  = Cardinality({j \in LentRows : latest_current[j] = latest_current[i]})
        /\ \A k \in 1..Len(loans_data) :
              \E i \in LentRows : loans_data[k] = latest_current[i]
        /\ \A k \in 1..(Len(loans_data) - 1) :
              loans_data[k].Loans.val >= loans_data[k + 1].Loans.val

\* C13 witness: a record lending 3 filed before one lending 4 is listed after it.
C13_Witness ==
    /\ LoansDone
    /\ Len(latest_current) = 2
    /\ latest_current[1].Loans = Num(3)
    /\ latest_current[2].Loans = Num(4)
    /\ loans_data = <<latest_current[2], latest_current[1]>>

-----------------------------------------------------------------------------
(* Graph shape *)

IsSelfLoop(e) == Cardinality(e) = 1

\* C14: at every point of create_money_flow_network the graph has no
\* self-loop, and every edge joins one official node to one lobbyist or vendor
\* node. (An nx.Graph keeps one edge per unordered pair by construction.)
C14_GraphShape ==
    \A e \in DOMAIN G.edge :
        /\ ~IsSelfLoop(e)
        /\ e \subseteq DOMAIN G.node
        /\ Cardinality(e \cap NodesOfType("official")) = 1
        /\ Cardinality(e \cap (NodesOfType("lobbyist") \cup NodesOfType("vendor"))) = 1

====
